---- MODULE Spec2Model ----
(***************************************************************************)
(* The declaration and symbol-table model of the Torque compiler           *)
(* (src/torque/declarable.h): Declarable kinds and casts, Scope            *)
(* registries and parent-chain lookup, write-once Values, Callables and    *)
(* the Generic specialization cache.                                       *)
(*                                                                         *)
(* Declarables live in an arena for the whole run; a Declarable is its     *)
(* index in the arena (1..Len(kind_)) and NULL is the null pointer.        *)
(* Every action is one call; `last` records the call and what it gave      *)
(* back.                                                                   *)
(***************************************************************************)
EXTENDS Integers, Sequences, FiniteSets, TLC

\* ------------------------------------------------------------------ bounds
MaxDecl == 3        \* Declarables constructed in one run
MaxScopeDecl == 2   \* ... in a run of the Scope specification
MaxCastDecl == 1    \* ... in a run of the cast specification
MaxEntries == 2     \* AddDeclarable calls in one run
MaxAdds == 2        \* AddSpecialization calls in one run
MaxErrors == 1      \* diagnostics reported in one run
MaxReturns == 1     \* IncrementReturns calls on one Callable

NULL == 0
Names == {"a", "b"}
NoValue == "nullopt"
VisitResults == {"v0", "v1"}
TypeVectors == {<<"Int32">>, <<"Float64">>, <<"Int32", "Float64">>,
                <<"Float64", "Int32">>}

Kinds == {"kModule", "kMacro", "kBuiltin", "kRuntimeFunction", "kGeneric",
          "kTypeAlias", "kExternConstant", "kModuleConstant"}

VARIABLES
    build,            \* which build is running, as far as the run has shown:
                      \* "any" while no DCHECK has failed (debug and release
                      \* builds behave alike), "debug" once a DCHECK aborted,
                      \* "release" once a failing DCHECK was compiled out
    kind_,            \* Declarable::kind_, per Declarable
    parent_scope_,    \* Declarable::parent_scope_, per Declarable
    declarations_,    \* Scope::declarations_: name -> sequence of Declarables
    value_,           \* Value::value_: NoValue or a VisitResult
    body_,            \* Callable::body_.has_value()
    returns_,         \* Callable::returns_
    specializations_, \* Generic::specializations_: TypeVector -> Callable
    scopeStack,       \* the CurrentScope contextual variable (innermost last)
    errors,           \* diagnostics reported through ReportError
    addLog,           \* history: the AddSpecialization calls that returned
    firstSet,         \* history: per Value, what the first set_value call on
                      \* it was given (NoValue while there was none)
    pc,               \* "run", "fatal" (a failed DCHECK), or an outcome of
                      \* undefined behaviour: "crashed", "wild"
    last              \* the last call made and what it returned

vars == <<build, kind_, parent_scope_, declarations_, value_, body_, returns_,
          specializations_, scopeStack, errors, addLog, firstSet, pc, last>>

arena == <<kind_, parent_scope_, declarations_, value_, body_, returns_,
           specializations_, firstSet>>

Decls == 1..Len(kind_)
EmptyMap == [x \in {} |-> NULL]

\* The record of a call: the operation, its receiver and arguments, what it
\* returned (ret, rets, val), whether the signature given was variadic (va)
\* and a body was given (body), whether the call broke its precondition
\* (wrong) and whether it reported a declaration error (err).
NoCall == [op |-> "none", self |-> NULL, arg |-> NULL, name |-> "",
           targs |-> <<>>, target |-> "", val |-> NoValue, ret |-> NULL,
           rets |-> <<>>, va |-> FALSE, body |-> FALSE, wrong |-> FALSE,
           err |-> FALSE]

Call(op) == [NoCall EXCEPT !.op = op]

\* DCHECK(condition): nothing when the condition holds; when it fails, a debug
\* build aborts and a release build, where the check is compiled out, goes on.
DCHECK(condition) ==
    IF condition
    THEN UNCHANGED <<build, pc>>
    ELSE \/ build = "any" /\ build' = "debug" /\ pc' = "fatal"
         \/ build' = "release" /\ pc' = pc

\* What undefined behaviour can turn into: the process dies on the bad
\* access, or it carries on with whatever the access produced.
UBOutcomes == {"crashed", "wild"}

\* ------------------------------------------------- Declarable kind tests
kind(d) == kind_[d]
IsModule(d) == kind(d) = "kModule"
IsMacro(d) == kind(d) = "kMacro"
IsBuiltin(d) == kind(d) = "kBuiltin"
IsRuntimeFunction(d) == kind(d) = "kRuntimeFunction"
IsGeneric(d) == kind(d) = "kGeneric"
IsTypeAlias(d) == kind(d) = "kTypeAlias"
IsExternConstant(d) == kind(d) = "kExternConstant"
IsModuleConstant(d) == kind(d) = "kModuleConstant"
IsValue(d) == IsExternConstant(d) \/ IsModuleConstant(d)

\* (Variant: an IsCallable that leaves RuntimeFunction out; C17 must not hold
\* of it.)
IsCallableButRuntime(d) == IsMacro(d) \/ IsBuiltin(d)

IsCallable(d) == IsMacro(d) \/ IsBuiltin(d) \/ IsRuntimeFunction(d)
ParentScope(d) == parent_scope_[d]

\* The classes derived from Scope: Module and Callable (and its subclasses).
IsScope(d) == IsModule(d) \/ IsCallable(d)
Scopes == {d \in Decls : IsScope(d)}

\* ------------------------------------------------ the ambient CurrentScope
\* CurrentScope::Get(): the innermost value pushed, null when none is set.
CurrentScopeGet ==
    IF scopeStack = <<>> THEN NULL ELSE scopeStack[Len(scopeStack)]

\* Entering a lexical construct (a module body, a callable body): its scope,
\* declared in the scope that is current, is pushed by CurrentScope::Scope.
EnterScope ==
    /\ pc = "run"
    /\ \E s \in {x \in Scopes : ParentScope(x) = CurrentScopeGet} :
        /\ scopeStack' = Append(scopeStack, s)
        /\ last' = [Call("EnterScope") EXCEPT !.self = s]
    /\ UNCHANGED <<build, arena, errors, addLog, pc>>

\* Leaving the construct: the CurrentScope::Scope destructor pops it.
ExitScope ==
    /\ pc = "run"
    /\ scopeStack # <<>>
    /\ scopeStack' = SubSeq(scopeStack, 1, Len(scopeStack) - 1)
    /\ last' = [Call("ExitScope") EXCEPT !.self = CurrentScopeGet]
    /\ UNCHANGED <<build, arena, errors, addLog, pc>>

\* ------------------------------------------------------------ construction
\* (Variant: a constructor that records the new object itself as its parent
\* scope; C16 must not hold of it.)
ConstructUnderItself(k, val, body) ==
    /\ kind_' = Append(kind_, k)
    /\ parent_scope_' = Append(parent_scope_, Len(kind_) + 1)
    /\ declarations_' = Append(declarations_, EmptyMap)
    /\ value_' = Append(value_, val)
    /\ body_' = Append(body_, body)
    /\ returns_' = Append(returns_, 0)
    /\ specializations_' = Append(specializations_, EmptyMap)
    /\ firstSet' = Append(firstSet, val)

\* (Variant: a constructor that takes the scope constructed last as the
\* parent, whether or not it is still current; C12 must not hold of it.)
ConstructUnderLatestScope(k, val, body) ==
    /\ kind_' = Append(kind_, k)
    /\ parent_scope_' =
           Append(parent_scope_,
                  IF Scopes = {} THEN NULL
                  ELSE CHOOSE s \in Scopes : \A t \in Scopes : t <= s)
    /\ declarations_' = Append(declarations_, EmptyMap)
    /\ value_' = Append(value_, val)
    /\ body_' = Append(body_, body)
    /\ returns_' = Append(returns_, 0)
    /\ specializations_' = Append(specializations_, EmptyMap)
    /\ firstSet' = Append(firstSet, val)

\* Declarable::Declarable and the member initialisers of its subclasses:
\* kind_ from the constructor, parent_scope_ from CurrentScope::Get(), an
\* empty registry, an empty cache, body_ and value_ as given.
Construct(k, val, body) ==
    /\ kind_' = Append(kind_, k)
    /\ parent_scope_' = Append(parent_scope_, CurrentScopeGet)
    /\ declarations_' = Append(declarations_, EmptyMap)
    /\ value_' = Append(value_, val)
    /\ body_' = Append(body_, body)
    /\ returns_' = Append(returns_, 0)
    /\ specializations_' = Append(specializations_, EmptyMap)
    /\ firstSet' = Append(firstSet, val)

\* What `new X(...)` hands back: the Declarable just placed in the arena. va
\* records whether the signature given to a Callable was variadic.
Constructed(op, va) == [Call(op) EXCEPT !.ret = Len(kind_) + 1, !.va = va]

NewModule ==
    /\ pc = "run"
    /\ Len(kind_) < MaxDecl
    /\ Construct("kModule", NoValue, FALSE)
    /\ last' = Constructed("Module", FALSE)
    /\ UNCHANGED <<build, scopeStack, errors, addLog, pc>>

\* ReportError: records a diagnostic and abandons the construction under way,
\* so the object being constructed is never handed to the caller; the pass
\* goes on with the next declaration.
ReportError(op, va) ==
    /\ errors' = errors + 1
    /\ last' = [Call(op) EXCEPT !.err = TRUE, !.va = va]
    /\ UNCHANGED <<arena, pc>>

\* (Variant: a Macro::Macro without the test; C7 must not hold of it.)
MacroRejectsNothing(va) == FALSE

\* Macro::Macro: the test that rejects a signature.
MacroRejects(va) == va

\* Macro::Macro, after Callable's constructor. The body given, when one is
\* given, is non-null (DCHECK(!body || *body)).
NewMacro ==
    /\ pc = "run"
    /\ Len(kind_) < MaxDecl
    /\ \E va \in BOOLEAN, body \in BOOLEAN :
        IF MacroRejects(va)
        THEN /\ errors < MaxErrors
             /\ ReportError("Macro", va)
        ELSE /\ Construct("kMacro", NoValue, body)
             /\ last' = [Constructed("Macro", va) EXCEPT !.body = body]
             /\ UNCHANGED <<errors, pc>>
    /\ UNCHANGED <<build, scopeStack, addLog>>

NewBuiltin ==
    /\ pc = "run"
    /\ Len(kind_) < MaxDecl
    /\ \E va \in BOOLEAN, body \in BOOLEAN :
        /\ Construct("kBuiltin", NoValue, body)
        /\ last' = [Constructed("Builtin", va) EXCEPT !.body = body]
    /\ UNCHANGED <<build, scopeStack, errors, addLog, pc>>

\* RuntimeFunction::RuntimeFunction passes base::nullopt as the body.
NewRuntimeFunction ==
    /\ pc = "run"
    /\ Len(kind_) < MaxDecl
    /\ \E va \in BOOLEAN :
        /\ Construct("kRuntimeFunction", NoValue, FALSE)
        /\ last' = Constructed("RuntimeFunction", va)
    /\ UNCHANGED <<build, scopeStack, errors, addLog, pc>>

NewGeneric ==
    /\ pc = "run"
    /\ Len(kind_) < MaxDecl
    /\ Construct("kGeneric", NoValue, FALSE)
    /\ last' = Constructed("Generic", FALSE)
    /\ UNCHANGED <<build, scopeStack, errors, addLog, pc>>

NewTypeAlias ==
    /\ pc = "run"
    /\ Len(kind_) < MaxDecl
    /\ Construct("kTypeAlias", NoValue, FALSE)
    /\ last' = Constructed("TypeAlias", FALSE)
    /\ UNCHANGED <<build, scopeStack, errors, addLog, pc>>

NewModuleConstant ==
    /\ pc = "run"
    /\ Len(kind_) < MaxDecl
    /\ Construct("kModuleConstant", NoValue, FALSE)
    /\ last' = Constructed("ModuleConstant", FALSE)
    /\ UNCHANGED <<build, scopeStack, errors, addLog, pc>>

\* (Variant: an ExternConstant::ExternConstant without its set_value; C9
\* must not hold of it.)
ExternConstantLeftUnset(v) == NoValue

\* ExternConstant::ExternConstant: Value's constructor leaves value_ empty and
\* the body calls set_value(VisitResult(type, value)), whose DCHECK holds.
ExternConstantInitial(v) == v

NewExternConstant ==
    /\ pc = "run"
    /\ Len(kind_) < MaxDecl
    /\ \E v \in VisitResults :
        /\ Construct("kExternConstant", ExternConstantInitial(v), FALSE)
        /\ last' = [Constructed("ExternConstant", FALSE) EXCEPT !.val = v]
    /\ UNCHANGED <<build, scopeStack, errors, addLog, pc>>

\* ------------------------------------------------------------------- Scope
\* declarations_[name] (std::unordered_map::operator[]): the vector stored
\* under name, an empty one being inserted first when name is not a key.
Subscript(map, name) == IF name \in DOMAIN map THEN map[name] ELSE <<>>
Touched(map, name) ==
    [x \in DOMAIN map \cup {name} |-> Subscript(map, x)]

\* s and the scopes reached from it through ParentScope().
RECURSIVE Chain(_)
Chain(s) == IF s = NULL THEN {} ELSE {s} \cup Chain(ParentScope(s))

\* (Variant: a loop that puts each local declarable in front; C1 must not
\* hold of it.)
RECURSIVE PushFrontAll(_, _)
PushFrontAll(result, vec) ==
    IF vec = <<>> THEN result
    ELSE PushFrontAll(<<Head(vec)>> \o result, Tail(vec))

\* The loop of Scope::Lookup: push_back of each local declarable in turn.
RECURSIVE PushBackAll(_, _)
PushBackAll(result, vec) ==
    IF vec = <<>> THEN result
    ELSE PushBackAll(Append(result, Head(vec)), Tail(vec))

\* Scope::Lookup's result.
RECURSIVE LookupResult(_, _)
LookupResult(s, name) ==
    LET result == IF ParentScope(s) # NULL
                  THEN LookupResult(ParentScope(s), name)
                  ELSE <<>>
    IN PushBackAll(result, Subscript(declarations_[s], name))

\* Scope::LookupShallow's result.
LookupShallowResult(s, name) == Subscript(declarations_[s], name)

\* s->LookupShallow(name).
LookupShallow(s) ==
    /\ pc = "run"
    /\ \E name \in Names :
        /\ declarations_' =
               [declarations_ EXCEPT ![s] = Touched(declarations_[s], name)]
        /\ last' = [Call("LookupShallow") EXCEPT
                        !.self = s, !.name = name,
                        !.rets = LookupShallowResult(s, name)]
    /\ UNCHANGED <<build, kind_, parent_scope_, value_, body_, returns_,
                   specializations_, firstSet, scopeStack, errors, addLog, pc>>

\* s->Lookup(name): declarations_[name] is evaluated in s and, through the
\* recursion, in every scope above it.
Lookup(s) ==
    /\ pc = "run"
    /\ \E name \in Names :
        /\ declarations_' =
               [d \in Decls |-> IF d \in Chain(s)
                                THEN Touched(declarations_[d], name)
                                ELSE declarations_[d]]
        /\ last' = [Call("Lookup") EXCEPT
                        !.self = s, !.name = name,
                        !.rets = LookupResult(s, name)]
    /\ UNCHANGED <<build, kind_, parent_scope_, value_, body_, returns_,
                   specializations_, firstSet, scopeStack, errors, addLog, pc>>

\* The number of entries registered in the scopes ds under all names.
RECURSIVE SumLen(_, _)
SumLen(map, keys) ==
    IF keys = {} THEN 0
    ELSE LET k == CHOOSE x \in keys : TRUE
         IN Len(map[k]) + SumLen(map, keys \ {k})
RECURSIVE Registered(_)
Registered(ds) ==
    IF ds = {} THEN 0
    ELSE LET d == CHOOSE x \in ds : TRUE
         IN SumLen(declarations_[d], DOMAIN declarations_[d])
            + Registered(ds \ {d})

\* (Variant: an AddDeclarable that assigns the one-element vector instead of
\* appending; C13 must not hold of it.)
AddDeclarableAssigning(s) ==
    /\ pc = "run"
    /\ Registered(Decls) < MaxEntries
    /\ \E name \in Names, d \in Decls :
        /\ declarations_' =
               [declarations_ EXCEPT
                    ![s] = [Touched(declarations_[s], name) EXCEPT
                                ![name] = <<d>>]]
        /\ last' = [Call("AddDeclarable") EXCEPT
                        !.self = s, !.name = name, !.arg = d, !.ret = d]
    /\ UNCHANGED <<build, kind_, parent_scope_, value_, body_, returns_,
                   specializations_, firstSet, scopeStack, errors, addLog, pc>>

\* s->AddDeclarable(name, d).
AddDeclarable(s) ==
    /\ pc = "run"
    /\ Registered(Decls) < MaxEntries
    /\ \E name \in Names, d \in Decls :
        /\ declarations_' =
               [declarations_ EXCEPT
                    ![s] = [Touched(declarations_[s], name) EXCEPT
                                ![name] = Append(@, d)]]
        /\ last' = [Call("AddDeclarable") EXCEPT
                        !.self = s, !.name = name, !.arg = d, !.ret = d]
    /\ UNCHANGED <<build, kind_, parent_scope_, value_, body_, returns_,
                   specializations_, firstSet, scopeStack, errors, addLog, pc>>

\* ------------------------------------------------------------------- casts
Targets == {"Module", "Value", "ModuleConstant", "ExternConstant",
            "Callable", "Macro", "Builtin", "RuntimeFunction", "Generic",
            "TypeAlias"}

\* declarable->Is##x() for the class x of DECLARE_DECLARABLE_BOILERPLATE(x, y).
Is(T, d) ==
    CASE T = "Module" -> IsModule(d)
      [] T = "Value" -> IsValue(d)
      [] T = "ModuleConstant" -> IsModuleConstant(d)
      [] T = "ExternConstant" -> IsExternConstant(d)
      [] T = "Callable" -> IsCallable(d)
      [] T = "Macro" -> IsMacro(d)
      [] T = "Builtin" -> IsBuiltin(d)
      [] T = "RuntimeFunction" -> IsRuntimeFunction(d)
      [] T = "Generic" -> IsGeneric(d)
      [] T = "TypeAlias" -> IsTypeAlias(d)

\* (Variant: a DynamicCast without its kind test; C3 must not hold of it.)
DynamicCastNoKindTest(T, d) == d

\* x::DynamicCast(declarable): what it returns.
DynamicCastResult(T, d) ==
    IF d = NULL THEN NULL
    ELSE IF ~Is(T, d) THEN NULL
    ELSE d

\* x::cast(declarable): DCHECK(declarable->Is##x()), then the static_cast,
\* which hands back declarable whatever its kind (wrong: viewed as an x it
\* is not).
cast ==
    /\ pc = "run"
    /\ \E T \in Targets, d \in Decls :
        /\ DCHECK(Is(T, d))
        /\ last' = [Call("cast") EXCEPT
                        !.target = T, !.arg = d, !.wrong = ~Is(T, d),
                        !.ret = IF pc' = "fatal" THEN NULL ELSE d]
    /\ UNCHANGED <<arena, scopeStack, errors, addLog>>

DynamicCast ==
    /\ pc = "run"
    /\ \E T \in Targets, d \in Decls \cup {NULL} :
        last' = [Call("DynamicCast") EXCEPT
                     !.target = T, !.arg = d, !.ret = DynamicCastResult(T, d)]
    /\ UNCHANGED <<build, arena, scopeStack, errors, addLog, pc>>

\* ------------------------------------------------------------------ Module
\* The loop of CurrentModule(): the Module it returns, NULL standing for the
\* walk reaching scope->ParentScope() with scope == nullptr.
RECURSIVE CurrentModuleWalk(_)
CurrentModuleWalk(scope) ==
    LET m == DynamicCastResult("Module", scope)
    IN IF m # NULL THEN m
       ELSE IF scope = NULL THEN NULL
       ELSE CurrentModuleWalk(ParentScope(scope))

\* CurrentModule(). Calling ParentScope() through a null scope is undefined.
CurrentModule ==
    /\ pc = "run"
    /\ LET m == CurrentModuleWalk(CurrentScopeGet)
       IN IF m # NULL
          THEN /\ last' = [Call("CurrentModule") EXCEPT !.ret = m]
               /\ pc' = pc
          ELSE /\ last' = [Call("CurrentModule") EXCEPT !.wrong = TRUE]
               /\ pc' \in UBOutcomes
    /\ UNCHANGED <<build, arena, scopeStack, errors, addLog>>

\* ------------------------------------------------------------------- Value
\* value_ = value in Value::set_value.
Assigned(old, v) == v

\* Value::set_value.
set_value ==
    /\ pc = "run"
    /\ \E d \in {x \in Decls : IsValue(x)}, v \in VisitResults :
        /\ firstSet' = [firstSet EXCEPT
                            ![d] = IF @ = NoValue THEN v ELSE @]
        /\ last' = [Call("set_value") EXCEPT
                        !.self = d, !.val = v,
                        !.wrong = (value_[d] # NoValue)]
        /\ DCHECK(value_[d] = NoValue)
        /\ value_' = IF pc' = "fatal" THEN value_
                     ELSE [value_ EXCEPT ![d] = Assigned(@, v)]
    /\ UNCHANGED <<kind_, parent_scope_, declarations_, body_, returns_,
                   specializations_, scopeStack, errors, addLog>>

\* Value::value(): *value_, undefined when value_ is empty.
value ==
    /\ pc = "run"
    /\ \E d \in {x \in Decls : IsValue(x)} :
        IF value_[d] # NoValue
        THEN /\ last' = [Call("value") EXCEPT !.self = d, !.val = value_[d]]
             /\ pc' = pc
        ELSE /\ last' = [Call("value") EXCEPT !.self = d, !.wrong = TRUE]
             /\ pc' \in UBOutcomes
    /\ UNCHANGED <<build, arena, scopeStack, errors, addLog>>

\* ---------------------------------------------------------------- Callable
\* (Variant: an IsExternal with the test inverted; C18 must not hold of it.)
IsExternalInverted(d) == body_[d]

\* Callable::IsExternal.
IsExternal(d) == ~body_[d]

\* Callable::HasReturns.
HasReturns(d) == returns_[d] # 0

\* Callable::IncrementReturns.
IncrementReturns ==
    /\ pc = "run"
    /\ \E d \in {x \in Decls : IsCallable(x)} :
        /\ returns_[d] < MaxReturns
        /\ returns_' = [returns_ EXCEPT ![d] = @ + 1]
        /\ last' = [Call("IncrementReturns") EXCEPT !.self = d]
    /\ UNCHANGED <<build, kind_, parent_scope_, declarations_, value_, body_,
                   specializations_, firstSet, scopeStack, errors, addLog, pc>>

\* ----------------------------------------------------------------- Generic
\* specializations_[type_arguments] = specialization.
Store(map, k, c) == [x \in DOMAIN map \cup {k} |-> IF x = k THEN c ELSE map[x]]

\* (Variant: a find that takes any cached entry; C5 must not hold of it.)
FindAny(map, k) ==
    IF DOMAIN map = {} THEN NULL ELSE map[CHOOSE x \in DOMAIN map : TRUE]

\* (Variant: a find whose key comparison ignores the order of the types; C14
\* must not hold of it.)
FindUnordered(map, k) ==
    LET same == {x \in DOMAIN map :
                    {x[i] : i \in 1..Len(x)} = {k[i] : i \in 1..Len(k)}}
    IN IF same = {} THEN NULL ELSE map[CHOOSE x \in same : TRUE]

\* specializations_.find(type_arguments): it->second, or base::nullopt (NULL).
Find(map, k) == IF k \in DOMAIN map THEN map[k] ELSE NULL

\* Generic::AddSpecialization.
AddSpecialization ==
    /\ pc = "run"
    /\ Len(addLog) < MaxAdds
    /\ \E g \in {x \in Decls : IsGeneric(x)}, k \in TypeVectors,
          c \in {x \in Decls : IsCallable(x)} :
        /\ last' = [Call("AddSpecialization") EXCEPT
                        !.self = g, !.targs = k, !.arg = c,
                        !.wrong = (k \in DOMAIN specializations_[g])]
        /\ DCHECK(k \notin DOMAIN specializations_[g])
        /\ IF pc' = "fatal"
           THEN UNCHANGED <<specializations_, addLog>>
           ELSE /\ specializations_' =
                       [specializations_ EXCEPT ![g] = Store(@, k, c)]
                /\ addLog' = Append(addLog, <<g, k, c>>)
    /\ UNCHANGED <<kind_, parent_scope_, declarations_, value_,
                   body_, returns_, firstSet, scopeStack, errors>>

\* (Variant: a GetSpecialization that reads through specializations_[...],
\* which inserts a null entry on a miss; C15 must not hold of it.)
GetSpecializationSubscript ==
    /\ pc = "run"
    /\ \E g \in {x \in Decls : IsGeneric(x)}, k \in TypeVectors :
        /\ last' = [Call("GetSpecialization") EXCEPT
                        !.self = g, !.targs = k,
                        !.ret = Find(specializations_[g], k)]
        /\ specializations_' =
               [specializations_ EXCEPT
                    ![g] = Store(@, k, Find(specializations_[g], k))]
    /\ UNCHANGED <<build, kind_, parent_scope_, declarations_, value_, body_,
                   returns_, firstSet, scopeStack, errors, addLog, pc>>

\* Generic::GetSpecialization.
GetSpecialization ==
    /\ pc = "run"
    /\ \E g \in {x \in Decls : IsGeneric(x)}, k \in TypeVectors :
        last' = [Call("GetSpecialization") EXCEPT
                     !.self = g, !.targs = k,
                     !.ret = Find(specializations_[g], k)]
    /\ UNCHANGED <<build, arena, scopeStack, errors, addLog, pc>>

\* ------------------------------------------------------------ specification
Init ==
    /\ build = "any"
    /\ kind_ = <<>>
    /\ parent_scope_ = <<>>
    /\ declarations_ = <<>>
    /\ value_ = <<>>
    /\ body_ = <<>>
    /\ returns_ = <<>>
    /\ specializations_ = <<>>
    /\ scopeStack = <<>>
    /\ errors = 0
    /\ addLog = <<>>
    /\ firstSet = <<>>
    /\ pc = "run"
    /\ last = NoCall

\* Scopes: the declaration pass and the queries on the registries. Modules are
\* declared at the top level and callables inside a scope; declarables are
\* registered and looked up in the scope that is current, as the declaration
\* pass does through CurrentScope::Get().
NextScope ==
    \/ EnterScope
    \/ ExitScope
    \/ (Len(kind_) < MaxScopeDecl /\ CurrentScopeGet = NULL /\ NewModule)
    \/ (Len(kind_) < MaxScopeDecl /\ CurrentScopeGet # NULL
            /\ NewRuntimeFunction)
    \/ (\E s \in Scopes \cap {CurrentScopeGet} : AddDeclarable(s))
    \/ (\E s \in Scopes \cap {CurrentScopeGet} : LookupShallow(s))
    \/ (\E s \in Scopes \cap {CurrentScopeGet} : Lookup(s))
    \/ CurrentModule

SpecScope == Init /\ [][NextScope]_vars

\* Kinds and casts: one Declarable of any kind, cast to any target.
NextCast ==
    \/ (Len(kind_) < MaxCastDecl /\ NewModule)
    \/ (Len(kind_) < MaxCastDecl /\ NewMacro)
    \/ (Len(kind_) < MaxCastDecl /\ NewBuiltin)
    \/ (Len(kind_) < MaxCastDecl /\ NewRuntimeFunction)
    \/ (Len(kind_) < MaxCastDecl /\ NewGeneric)
    \/ (Len(kind_) < MaxCastDecl /\ NewTypeAlias)
    \/ (Len(kind_) < MaxCastDecl /\ NewExternConstant)
    \/ (Len(kind_) < MaxCastDecl /\ NewModuleConstant)
    \/ cast
    \/ DynamicCast

SpecCast == Init /\ [][NextCast]_vars

\* Values.
NextValue ==
    \/ NewExternConstant
    \/ NewModuleConstant
    \/ set_value
    \/ value

SpecValue == Init /\ [][NextValue]_vars

\* Callables.
NextCallable ==
    \/ NewMacro
    \/ NewBuiltin
    \/ NewRuntimeFunction
    \/ IncrementReturns

SpecCallable == Init /\ [][NextCallable]_vars

\* The Generic cache.
NextGeneric ==
    \/ NewGeneric
    \/ NewRuntimeFunction
    \/ AddSpecialization
    \/ GetSpecialization

SpecGeneric == Init /\ [][NextGeneric]_vars

\* Scopes as the header lets any client build them: a Module or a Macro is
\* constructed whatever scope is current, scopes are entered and left, and
\* any scope is looked up in.
NextNest ==
    \/ EnterScope
    \/ ExitScope
    \/ (Len(kind_) < MaxScopeDecl /\ NewModule)
    \/ (Len(kind_) < MaxScopeDecl /\ NewMacro)
    \/ (\E s \in Scopes : Lookup(s))

SpecNest == Init /\ [][NextNest]_vars

\* Declarables of every kind and the operations that act on them.
NextKind ==
    \/ (Len(kind_) < MaxScopeDecl /\ NewModule)
    \/ (Len(kind_) < MaxScopeDecl /\ NewMacro)
    \/ (Len(kind_) < MaxScopeDecl /\ NewBuiltin)
    \/ (Len(kind_) < MaxScopeDecl /\ NewRuntimeFunction)
    \/ (Len(kind_) < MaxScopeDecl /\ NewGeneric)
    \/ (Len(kind_) < MaxScopeDecl /\ NewTypeAlias)
    \/ (Len(kind_) < MaxScopeDecl /\ NewExternConstant)
    \/ (Len(kind_) < MaxScopeDecl /\ NewModuleConstant)
    \/ (\E s \in Scopes : AddDeclarable(s))
    \/ (\E s \in Scopes : Lookup(s))
    \/ set_value
    \/ IncrementReturns
    \/ AddSpecialization

SpecKind == Init /\ [][NextKind]_vars

\* Everything together.
Next ==
    \/ NextScope
    \/ NextKind
    \/ NextNest
    \/ NextCast
    \/ NextValue
    \/ NextCallable
    \/ NextGeneric

Spec == Init /\ [][Next]_vars

\* ================================================================== claims
Count(x, seq) == Cardinality({i \in 1..Len(seq) : seq[i] = x})

\* The scopes from the root down to s.
RECURSIVE PathFromRoot(_)
PathFromRoot(s) ==
    IF s = NULL THEN <<>> ELSE Append(PathFromRoot(ParentScope(s)), s)

\* The sequences registered under name in the scopes of path, one after the
\* other.
RECURSIVE Flatten(_, _)
Flatten(path, name) ==
    IF path = <<>> THEN <<>>
    ELSE Subscript(declarations_[Head(path)], name)
         \o Flatten(Tail(path), name)

\* Every place (scope, name, index) where d is registered.
Occurrences(d) ==
    {t \in Decls \X Names \X (1..MaxEntries) :
        /\ t[2] \in DOMAIN declarations_[t[1]]
        /\ t[3] <= Len(declarations_[t[1]][t[2]])
        /\ declarations_[t[1]][t[2]][t[3]] = d}

\* C1: what S.Lookup(n) returned is the parent's Lookup(n) followed by
\* S.LookupShallow(n), the root's Lookup(n) being its LookupShallow(n): the
\* entries of the scopes from the root down to S, in that order. An entry
\* registered once, in a Module enclosing S, is in the result exactly once.
C1_LookupIsParentThenLocal ==
    last.op = "Lookup" =>
        LET S == last.self
            n == last.name
            P == ParentScope(S)
        IN /\ last.rets = (IF P = NULL THEN <<>> ELSE LookupResult(P, n))
                          \o LookupShallowResult(S, n)
           /\ last.rets = Flatten(PathFromRoot(S), n)
           /\ P = NULL => last.rets = LookupShallowResult(S, n)
           /\ \A M \in Chain(S) \ {S} : \A d \in Decls :
                (/\ IsModule(M)
                 /\ Count(d, Subscript(declarations_[M], n)) = 1
                 /\ Cardinality(Occurrences(d)) = 1)
                => Count(d, last.rets) = 1

\* A Lookup from a nested scope that returned one entry of the enclosing
\* Module followed by one entry of the nested scope itself.
C1_Witness ==
    /\ last.op = "Lookup"
    /\ ParentScope(last.self) # NULL
    /\ IsModule(ParentScope(last.self))
    /\ Len(last.rets) = 2
    /\ last.rets[1] # last.rets[2]
    /\ Subscript(declarations_[ParentScope(last.self)], last.name)
           = <<last.rets[1]>>
    /\ Subscript(declarations_[last.self], last.name) = <<last.rets[2]>>

\* The kinds a cast target stands for.
TargetKinds(T) ==
    CASE T = "Module" -> {"kModule"}
      [] T = "Value" -> {"kExternConstant", "kModuleConstant"}
      [] T = "ModuleConstant" -> {"kModuleConstant"}
      [] T = "ExternConstant" -> {"kExternConstant"}
      [] T = "Callable" -> {"kMacro", "kBuiltin", "kRuntimeFunction"}
      [] T = "Macro" -> {"kMacro"}
      [] T = "Builtin" -> {"kBuiltin"}
      [] T = "RuntimeFunction" -> {"kRuntimeFunction"}
      [] T = "Generic" -> {"kGeneric"}
      [] T = "TypeAlias" -> {"kTypeAlias"}

\* C2: the strict cast T::cast(d) returns d iff d's kind matches T; on a
\* mismatch it aborts and never returns d viewed as a T.
C2_StrictCastAbortsOnMismatch ==
    last.op = "cast" =>
        IF kind_[last.arg] \in TargetKinds(last.target)
        THEN pc = "run" /\ last.ret = last.arg
        ELSE pc = "fatal" /\ last.ret = NULL

\* C3: T::DynamicCast(d) never fails; it returns d when d is non-null and of
\* a kind T stands for, and null otherwise.
C3_DynamicCastIsDOrAbsent ==
    last.op = "DynamicCast" =>
        /\ pc = "run"
        /\ last.ret = IF /\ last.arg # NULL
                         /\ kind_[last.arg] \in TargetKinds(last.target)
                      THEN last.arg
                      ELSE NULL

\* A DynamicCast to the abstract target Callable of a Declarable that is no
\* Callable: absent.
C3_Witness ==
    /\ last.op = "DynamicCast"
    /\ last.target = "Callable"
    /\ last.arg # NULL
    /\ ~IsCallable(last.arg)
    /\ last.ret = NULL

Values == {d \in Decls : IsValue(d)}

\* C4: the value slot is write-once: in every state the value a Value holds
\* is the one its first set_value was given; no later call replaces it.
C4_ValueIsWriteOnce ==
    /\ \A d \in Values : value_[d] # NoValue => value_[d] = firstSet[d]
    /\ (last.op = "value" /\ ~last.wrong) => last.val = firstSet[last.self]

\* C5: GetSpecialization(k) on a Generic is absent while no
\* AddSpecialization(k, c) was made on it, and the c of the (latest) one
\* afterwards; a vector never registered stays absent.
C5_GetSpecializationFollowsAdds ==
    last.op = "GetSpecialization" =>
        LET hits == {i \in 1..Len(addLog) :
                        /\ addLog[i][1] = last.self
                        /\ addLog[i][2] = last.targs}
        IN IF hits = {}
           THEN last.ret = NULL
           ELSE last.ret =
                    addLog[CHOOSE i \in hits : \A j \in hits : j <= i][3]

\* GetSpecialization found the Callable registered for one vector while
\* another vector of the same Generic is not registered.
C5_Witness ==
    /\ last.op = "GetSpecialization"
    /\ last.ret # NULL
    /\ \E i \in 1..Len(addLog) :
          addLog[i] = <<last.self, last.targs, last.ret>>
    /\ \E k \in TypeVectors : k \notin DOMAIN specializations_[last.self]

\* C6: the cache grows by key-disjoint insertion only: a vector that is
\* cached stays cached, with the Callable it was cached with, whatever
\* AddSpecialization calls follow.
C6_CacheGrowsByNewKeysOnly ==
    [][\A g \in Decls : \A k \in DOMAIN specializations_[g] :
            /\ k \in DOMAIN specializations_'[g]
            /\ specializations_'[g][k] = specializations_[g][k]]_vars

\* C7: constructing a Macro with a variadic signature reports a declaration
\* error, does not abort the run and yields no Macro; constructing a Builtin
\* or a RuntimeFunction with a variadic signature yields one, without error.
C7_VariadicMacroIsRejected ==
    [][/\ (last'.op = "Macro" /\ last'.va)
            => /\ last'.err
               /\ last'.ret = NULL
               /\ errors' = errors + 1
               /\ pc' = "run"
               /\ kind_' = kind_
       /\ (last'.op \in {"Builtin", "RuntimeFunction"} /\ last'.va)
            => /\ ~last'.err
               /\ errors' = errors
               /\ pc' = "run"
               /\ last'.ret = Len(kind_) + 1
               /\ Len(kind_') = Len(kind_) + 1
               /\ kind_'[last'.ret] = "k" \o last'.op]_vars

\* A variadic Macro was rejected in a run that also holds a Builtin.
C7_Witness ==
    /\ last.op = "Macro"
    /\ last.va
    /\ last.err
    /\ errors = 1
    /\ \E d \in Decls : IsBuiltin(d)

\* The nearest Module at or above scope, NULL when there is none.
NearestModule(scope) ==
    LET path == PathFromRoot(scope)
        mods == {i \in 1..Len(path) : kind_[path[i]] = "kModule"}
    IN IF mods = {} THEN NULL
       ELSE path[CHOOSE i \in mods : \A j \in mods : j <= i]

\* C8: CurrentModule() returns the nearest Module at or above the current
\* scope; when there is none (no Module on the chain, or no current scope)
\* the call ends in a fatal invariant violation.
C8_CurrentModuleOrFatal ==
    last.op = "CurrentModule" =>
        IF NearestModule(CurrentScopeGet) # NULL
        THEN pc = "run" /\ last.ret = NearestModule(CurrentScopeGet)
        ELSE pc = "fatal"

\* C9: an ExternConstant holds its value from construction on (the one made
\* from its literal token), so that a set_value on it fails the DCHECK; a
\* ModuleConstant is constructed without a value and holds one exactly when
\* set_value was called on it.
C9_ExternEagerModuleLazy ==
    /\ \A d \in Decls : IsExternConstant(d) => value_[d] # NoValue
    /\ last.op = "ExternConstant" => value_[last.ret] = last.val
    /\ (last.op = "set_value" /\ IsExternConstant(last.self))
           => build # "any"
    /\ last.op = "ModuleConstant" => value_[last.ret] = NoValue
    /\ \A d \in Decls : IsModuleConstant(d) =>
           (value_[d] # NoValue <=> firstSet[d] # NoValue)
    /\ (last.op = "set_value" /\ IsModuleConstant(last.self)
            /\ pc # "fatal")
           => value_[last.self] = last.val

\* An ExternConstant and a ModuleConstant, the latter just given its value.
C9_Witness ==
    /\ last.op = "set_value"
    /\ IsModuleConstant(last.self)
    /\ value_[last.self] = last.val
    /\ build = "any"
    /\ \E d \in Decls : IsExternConstant(d)

\* C10: Lookup and LookupShallow leave every registry as it was: the names
\* present and the sequence under each name.
C10_LookupsAreReadOnly ==
    [][last'.op \in {"Lookup", "LookupShallow"} =>
           \A d \in Decls :
               /\ DOMAIN declarations_'[d] = DOMAIN declarations_[d]
               /\ \A n \in DOMAIN declarations_[d] :
                      declarations_'[d][n] = declarations_[d][n]]_vars

\* The Modules on the ancestor chain of s (s itself included).
ModulesOnChain(s) == {m \in Chain(s) : IsModule(m)}

\* C11: in every reachable state the ancestor chain of any scope (the scope
\* and its parents up to the root) contains at most one Module.
C11_AtMostOneModuleOnChain ==
    \A s \in Scopes : Cardinality(ModulesOnChain(s)) <= 1

C13_AddDeclarableAppendsOnly ==
    [][/\ last'.op = "AddDeclarable" =>
            LET S == last'.self
                n == last'.name
            IN /\ last'.ret = last'.arg
               /\ declarations_'[S][n] =
                      Append(Subscript(declarations_[S], n), last'.arg)
               /\ DOMAIN declarations_'[S] = DOMAIN declarations_[S] \cup {n}
               /\ \A m \in DOMAIN declarations_[S] \ {n} :
                      declarations_'[S][m] = declarations_[S][m]
               /\ \A T \in Decls \ {S} : declarations_'[T] = declarations_[T]
       /\ \A T \in Decls : \A m \in DOMAIN declarations_[T] :
            /\ m \in DOMAIN declarations_'[T]
            /\ Len(declarations_'[T][m]) >= Len(declarations_[T][m])
            /\ SubSeq(declarations_'[T][m], 1, Len(declarations_[T][m]))
                   = declarations_[T][m]]_vars

\* The same declarable was added twice under one name of a scope that holds
\* nothing else: two entries.
C13_Witness ==
    /\ last.op = "AddDeclarable"
    /\ last.ret = last.arg
    /\ declarations_[last.self][last.name] = <<last.arg, last.arg>>

\* Two type-argument vectors name the same types in the same order.
SameVector(a, b) == Len(a) = Len(b) /\ \A i \in 1..Len(a) : a[i] = b[i]

\* The AddSpecialization calls made on g before the last call.
EarlierAdds(g) ==
    LET n == IF last.op = "AddSpecialization" /\ pc # "fatal"
             THEN Len(addLog) - 1 ELSE Len(addLog)
    IN {i \in 1..n : addLog[i][1] = g}

\* C14: type-argument vectors are cache keys by structure. GetSpecialization
\* finds an entry exactly when an AddSpecialization on the Generic was given a
\* vector of the same length with the same type at every position, and
\* returns what the latest such call stored; an AddSpecialization is a
\* duplicate exactly when an earlier one was given such a vector; vectors
\* that differ in length, in an element or in order are entries of their own.
C14_VectorsAreKeysByStructure ==
    /\ last.op = "GetSpecialization" =>
           LET same == {i \in EarlierAdds(last.self) :
                            SameVector(addLog[i][2], last.targs)}
           IN /\ (last.ret # NULL) <=> (same # {})
              /\ \A i \in same :
                    (\A j \in same : j <= i) => last.ret = addLog[i][3]
    /\ last.op = "AddSpecialization" =>
           (last.wrong <=> \E i \in EarlierAdds(last.self) :
                               SameVector(addLog[i][2], last.targs))
    /\ \A g \in Decls : \A k \in TypeVectors :
           (k \in DOMAIN specializations_[g]) <=>
               (\E i \in 1..Len(addLog) :
                    addLog[i][1] = g /\ SameVector(addLog[i][2], k))

\* A Generic caches two vectors of the same types in opposite orders with
\* different Callables, and GetSpecialization on one returned its own.
C14_Witness ==
    /\ last.op = "GetSpecialization"
    /\ last.targs = <<"Int32", "Float64">>
    /\ last.ret # NULL
    /\ <<"Float64", "Int32">> \in DOMAIN specializations_[last.self]
    /\ specializations_[last.self][<<"Float64", "Int32">>] # last.ret
    /\ \E i \in 1..Len(addLog) :
          addLog[i] = <<last.self, <<"Int32", "Float64">>, last.ret>>

\* C15: GetSpecialization never changes a cache: on a hit and on a miss the
\* cached vectors and the Callable of each are the same after the call as
\* before it, and a second GetSpecialization of the same vector right after
\* the first returns the same result.
C15_GetSpecializationIsReadOnly ==
    [][last'.op = "GetSpecialization" =>
           /\ \A g \in Decls :
                 /\ DOMAIN specializations_'[g] = DOMAIN specializations_[g]
                 /\ \A k \in DOMAIN specializations_[g] :
                        specializations_'[g][k] = specializations_[g][k]
           /\ (/\ last.op = "GetSpecialization"
               /\ last.self = last'.self
               /\ last.targs = last'.targs) => last'.ret = last.ret]_vars

\* GetSpecialization missed on a Generic that caches another vector, and the
\* vector asked for is still not cached.
C15_Witness ==
    /\ last.op = "GetSpecialization"
    /\ last.ret = NULL
    /\ DOMAIN specializations_[last.self] # {}
    /\ last.targs \notin DOMAIN specializations_[last.self]

\* Where n steps of ParentScope() from s lead (NULL once the root is passed).
RECURSIVE Up(_, _)
Up(s, n) == IF n = 0 \/ s = NULL THEN s ELSE Up(ParentScope(s), n - 1)

\* C16: the parent back-references are acyclic. A Declarable's parent scope
\* is the ambient current scope at its construction, which is null or a
\* scope constructed strictly earlier; it never changes afterwards; so from
\* any Declarable ParentScope() reaches the root within as many steps as
\* there are Declarables, which bounds the recursion of Lookup.
C16_ParentsAreAcyclic ==
    [][/\ Len(kind_') > Len(kind_) =>
            LET d == Len(kind_')
            IN /\ parent_scope_'[d] = CurrentScopeGet
               /\ parent_scope_'[d] = NULL
                    \/ (parent_scope_'[d] < d /\ parent_scope_'[d] \in Scopes)
       /\ \A d \in Decls : parent_scope_'[d] = parent_scope_[d]
       /\ \A d \in 1..Len(kind_') : (Up(d, Len(kind_)))' = NULL]_vars

\* A Lookup walked up from a Macro nested in another scope, constructed
\* earlier, which is a root.
C16_Witness ==
    /\ last.op = "Lookup"
    /\ IsMacro(last.self)
    /\ ParentScope(last.self) # NULL
    /\ ParentScope(last.self) < last.self
    /\ ParentScope(ParentScope(last.self)) = NULL
    /\ Up(last.self, 2) = NULL

\* The eight kind predicates, in the order of the enumeration.
KindTest(p, d) ==
    CASE p = 1 -> IsModule(d)
      [] p = 2 -> IsMacro(d)
      [] p = 3 -> IsBuiltin(d)
      [] p = 4 -> IsRuntimeFunction(d)
      [] p = 5 -> IsGeneric(d)
      [] p = 6 -> IsTypeAlias(d)
      [] p = 7 -> IsExternConstant(d)
      [] p = 8 -> IsModuleConstant(d)

\* C17: of every Declarable exactly one of the eight kind predicates is true;
\* IsCallable holds iff the kind is Macro, Builtin or RuntimeFunction and
\* IsValue iff it is ExternConstant or ModuleConstant; and no operation
\* (AddDeclarable, Lookup, set_value, IncrementReturns, AddSpecialization)
\* changes the kind of any Declarable.
C17_KindIsOneAndFixed ==
    [][/\ \A d \in Decls : kind_'[d] = kind_[d]
       /\ \A d \in 1..Len(kind_') :
            /\ (Cardinality({p \in 1..8 : KindTest(p, d)}) = 1)'
            /\ IsCallable(d)' <=>
                   kind_'[d] \in {"kMacro", "kBuiltin", "kRuntimeFunction"}
            /\ IsValue(d)' <=>
                   kind_'[d] \in {"kExternConstant", "kModuleConstant"}]_vars

\* A RuntimeFunction, registered in itself and counted a return, next to a
\* Value that was given a value.
C17_Witness ==
    /\ \E d \in Decls :
          /\ IsRuntimeFunction(d)
          /\ IsCallable(d)
          /\ HasReturns(d)
          /\ \E n \in DOMAIN declarations_[d] : declarations_[d][n] = <<d>>
    /\ \E d \in Decls : IsValue(d) /\ value_[d] # NoValue
    /\ last.op = "set_value"

\* C18: of every Callable IsExternal() is true exactly when no body was given
\* at construction; no later operation (IncrementReturns, AddDeclarable,
\* Lookup) changes the answer; every RuntimeFunction is external, variadic
\* signature or not.
C18_ExternalIffNoBody ==
    [][/\ \A d \in 1..Len(kind_') :
            /\ (last'.op \in {"Macro", "Builtin"} /\ d \notin Decls
                    /\ last'.ret = d)
                 => (IsExternal(d)' <=> ~last'.body)
            /\ (last'.op = "RuntimeFunction" /\ d \notin Decls
                    /\ last'.ret = d)
                 => IsExternal(d)'
       /\ \A d \in Decls : IsCallable(d) =>
            (IsExternal(d)' <=> IsExternal(d))
       /\ \A d \in 1..Len(kind_') :
            (IsRuntimeFunction(d) => IsExternal(d))']_vars

\* A Macro constructed with a body, registered and counted a return, is not
\* external, next to a RuntimeFunction, which is.
C18_Witness ==
    /\ last.op = "IncrementReturns"
    /\ IsMacro(last.self)
    /\ ~IsExternal(last.self)
    /\ HasReturns(last.self)
    /\ \E s \in Scopes : \E n \in DOMAIN declarations_[s] :
          declarations_[s][n] = <<last.self>>
    /\ \E d \in Decls : IsRuntimeFunction(d) /\ IsExternal(d)

====
